---- MODULE Spec2Model ----
(***************************************************************************)
(* TCG event log parser (package tcglog): the binary log decoder           *)
(* (src/log.go) and the per-event validator checkEvent                     *)
(* (src/unnamed/part_001).                                                 *)
(*                                                                         *)
(* The byte source is a bytes.Reader / os.File: a byte sequence `data`     *)
(* and a read position `pos`.  Every integer field is decoded through the  *)
(* nativeEndian byte order object, i.e. in the byte order of the executing *)
(* machine, which is the variable `host`.                                  *)
(***************************************************************************)
EXTENDS Integers, Sequences, FiniteSets, TLC

VARIABLES
    data,       \* the byte source's content
    pos,        \* the byte source's read position (bytes before it are consumed)
    host,       \* native byte order of the executing machine: "LE" or "BE"
    phase,      \* "new": not opened; "open": newLogFromReader returned a Log; "failed"
    log,        \* the Log: Format, Algorithms, stream (kind, algorithmSizes, readFirstEvent)
    openErr,    \* the error newLogFromReader returned
    probe,      \* the local `event` of newLogFromReader (<<>> when none was decoded)
    start,      \* the local `start` of newLogFromReader
    ret,        \* what the last Log.NextEvent call returned: event (<<>> is nil), err
    calls,      \* number of Log.NextEvent calls made
    last,       \* history of the last ReadNextEvent call (position before, partial, ...)
    ref,        \* the same call evaluated with encoding/binary's LittleEndian
    image,      \* how `data` was laid out (the records written, their byte order)
    chk         \* checkEvent: its arguments and its return value

vars == <<data, pos, host, phase, log, openErr, probe, start, ret, calls, last, ref,
          image, chk>>

----------------------------------------------------------------------------
(* Bounds of the model *)

\* Log.NextEvent calls made on an opened log
MaxCalls == 3

\* payload bytes of an ordinary record, and trailing bytes after the header's pairs
MaxData == 1

\* offset of the read position at which the log starts in the source
MaxStart == 1

----------------------------------------------------------------------------
(* Program constants *)

AlgorithmSha1 == 4
AlgorithmSha256 == 11
AlgorithmSha384 == 12
AlgorithmSha512 == 13

KnownIds == {AlgorithmSha1, AlgorithmSha256, AlgorithmSha384, AlgorithmSha512}

\* an algorithm identifier the package does not recognise 
AlgorithmOther == CHOOSE id \in 14..127 : id \notin KnownIds


knownAlgorithms(alg) ==
    CASE alg = AlgorithmSha1 -> 20
      [] alg = AlgorithmSha256 -> 32
      [] alg = AlgorithmSha384 -> 48
      [] alg = AlgorithmSha512 -> 64

maxPCRIndex == 31

EventTypePostCode == 1
EventTypeNoAction == 3
EventTypeSeparator == 4
EventTypeAction == 5
EventTypeEventTag == 6

Format1_2 == "Format1_2"
Format2 == "Format2"

Orders == {"LE", "BE"}

----------------------------------------------------------------------------
(* Errors.  NoErr is Go's nil error. *)

Err(kind, a, b, c) == [kind |-> kind, a |-> a, b |-> b, c |-> c]

NoErr == Err("nil", 0, 0, 0)
EOF == Err("io.EOF", 0, 0, 0)
ErrUnexpectedEOF == Err("io.ErrUnexpectedEOF", 0, 0, 0)

\* InvalidLogError{"Invalid PCR index '%d'"}
InvalidPCRIndex(pcrIndex) == Err("InvalidLogError: Invalid PCR index", pcrIndex, 0, 0)

\* InvalidLogError{"Entry for algorithm '%04x' not found in log header"}
AlgorithmNotFound(algorithmId) ==
    Err("InvalidLogError: Entry for algorithm not found in log header", algorithmId, 0, 0)

\* InvalidLogError{"Digest size in log header for algorithm '%04x' doesn't match ..."}
DigestSizeMismatch(algorithmId, digestSize, knownSize) ==
    Err("InvalidLogError: Digest size in log header doesn't match expected size",
        algorithmId, digestSize, knownSize)

IsInvalidLogError(e) ==
    e.kind \in {"InvalidLogError: Invalid PCR index",
                "InvalidLogError: Entry for algorithm not found in log header",
                "InvalidLogError: Digest size in log header doesn't match expected size"}

----------------------------------------------------------------------------
(* Byte order: nativeEndian_ reinterprets the bytes in memory as an        *)
(* integer, so the value is the one of the machine's byte order.           *)

Uint16(order, b) ==
    IF order = "LE" THEN b[1] + 256 * b[2] ELSE b[2] + 256 * b[1]

Uint32(order, b) ==
    IF order = "LE"
    THEN b[1] + 256 * b[2] + 65536 * b[3] + 16777216 * b[4]
    ELSE b[4] + 256 * b[3] + 65536 * b[2] + 16777216 * b[1]

PutUint16(order, v) ==
    IF order = "LE" THEN <<v % 256, (v \div 256) % 256>>
                    ELSE <<(v \div 256) % 256, v % 256>>

PutUint32(order, v) ==
    IF order = "LE"
    THEN <<v % 256, (v \div 256) % 256, (v \div 65536) % 256, (v \div 16777216) % 256>>
    ELSE <<(v \div 16777216) % 256, (v \div 65536) % 256, (v \div 256) % 256, v % 256>>

----------------------------------------------------------------------------
(* The byte source *)

Min(a, b) == IF a < b THEN a ELSE b

Zeros(n) == [i \in 1..n |-> 0]

\* bytes.Reader.Read / os.File.Read into a buffer of n > 0 bytes: what is left, at
\* most n bytes; io.EOF only when nothing is left.  The buffer keeps its zeroes
\* beyond the bytes read.
Read(d, p, n) ==
    LET avail == Len(d) - p IN
    IF avail <= 0
    THEN [n |-> 0, err |-> EOF, buf |-> Zeros(n)]
    ELSE LET k == Min(n, avail) IN
         [n |-> k, err |-> NoErr, buf |-> SubSeq(d, p + 1, p + k) \o Zeros(n - k)]

\* io.ReadFull: exactly n bytes, or io.EOF when none was read and
\* io.ErrUnexpectedEOF when some but not all were.
ReadFull(d, p, n) ==
    LET avail == IF Len(d) - p > 0 THEN Len(d) - p ELSE 0 IN
    IF n = 0 THEN [n |-> 0, err |-> NoErr, buf |-> <<>>]
    ELSE IF avail >= n THEN [n |-> n, err |-> NoErr, buf |-> SubSeq(d, p + 1, p + n)]
    ELSE [n |-> avail,
          err |-> IF avail = 0 THEN EOF ELSE ErrUnexpectedEOF,
          buf |-> SubSeq(d, p + 1, p + avail)]

\* binary.Read(r, nativeEndian, &x) for a 4-byte x and for a 2-byte x
binaryRead32(order, d, p) ==
    LET r == ReadFull(d, p, 4) IN
    [n |-> r.n, err |-> r.err, val |-> IF r.err = NoErr THEN Uint32(order, r.buf) ELSE 0]

binaryRead16(order, d, p) ==
    LET r == ReadFull(d, p, 2) IN
    [n |-> r.n, err |-> r.err, val |-> IF r.err = NoErr THEN Uint16(order, r.buf) ELSE 0]

----------------------------------------------------------------------------
(* Events and what ReadNextEvent returns *)

NoDigests == [alg \in {} |-> <<>>]

MapPut(m, k, v) == [x \in (DOMAIN m) \cup {k} |-> IF x = k THEN v ELSE m[x]]

Event(pcrIndex, eventType, digests, d) ==
    [PCRIndex |-> pcrIndex, EventType |-> eventType, Digests |-> digests, Data |-> d]

\* (event, partial, err) and the position the source is left at; ids are the
\* algorithm identifiers the digest loop read, count the digest count it read.
Result(event, partial, err, p, ids, count) ==
    [event |-> event, partial |-> partial, err |-> err, pos |-> p,
     ids |-> ids, count |-> count]

\* pcrIndexValid with the bound off by one
pcrIndexValidOffByOne(pcrIndex) == pcrIndex <= maxPCRIndex + 1

\* if pcrIndex > maxPCRIndex { InvalidLogError }
pcrIndexValid(pcrIndex) == pcrIndex <= maxPCRIndex

\* stream_1_2.ReadNextEvent.  Each local operator is the rest of the function
\* after one read, given what that read returned.
stream_1_2_ReadNextEvent(order, d, p) ==
    LET readEvent(pcrIndex, eventType, digests, p5, r5) ==
            IF r5.err # NoErr THEN Result(<<>>, TRUE, r5.err, p5 + r5.n, <<>>, 0)
            ELSE Result(<<Event(pcrIndex, eventType, digests, r5.buf)>>, FALSE, NoErr,
                        p5 + r5.n, <<>>, 0)
        readEventSize(pcrIndex, eventType, digests, p4, r4) ==
            IF r4.err # NoErr THEN Result(<<>>, TRUE, r4.err, p4 + r4.n, <<>>, 0)
            ELSE readEvent(pcrIndex, eventType, digests, p4 + 4,
                           ReadFull(d, p4 + 4, r4.val))
        readDigest(pcrIndex, eventType, r3) ==
            IF r3.err # NoErr THEN Result(<<>>, TRUE, r3.err, p + 8 + r3.n, <<>>, 0)
            ELSE readEventSize(pcrIndex, eventType,
                               MapPut(NoDigests, AlgorithmSha1, r3.buf),
                               p + 8 + r3.n, binaryRead32(order, d, p + 8 + r3.n))
        readEventType(pcrIndex, r2) ==
            IF r2.err # NoErr THEN Result(<<>>, TRUE, r2.err, p + 4 + r2.n, <<>>, 0)
            ELSE readDigest(pcrIndex, r2.val,
                            Read(d, p + 8, knownAlgorithms(AlgorithmSha1)))
        readPcrIndex(r1) ==
            IF r1.err # NoErr THEN Result(<<>>, FALSE, r1.err, p + r1.n, <<>>, 0)
            ELSE IF ~pcrIndexValid(r1.val)
            THEN Result(<<>>, TRUE, InvalidPCRIndex(r1.val), p + 4, <<>>, 0)
            ELSE readEventType(r1.val, binaryRead32(order, d, p + 4))
    IN readPcrIndex(binaryRead32(order, d, p))

\* lookupDigestSize without the j == len(s.algorithmSizes) test: an identifier the
\* header does not declare is read with digestSize's zero value
lookupDigestSizeLenient(algorithmSizes, algorithmId) ==
    LET hits == {j \in 1..Len(algorithmSizes) :
                    algorithmSizes[j].algorithmId = algorithmId} IN
    IF hits = {} THEN [found |-> TRUE, digestSize |-> 0]
    ELSE LET j == CHOOSE x \in hits : \A y \in hits : x <= y IN
         [found |-> TRUE, digestSize |-> algorithmSizes[j].digestSize]

\* the lookup of an entry's digest size in stream_2.algorithmSizes: the first
\* header entry with that identifier; found is j < len(s.algorithmSizes)
lookupDigestSize(algorithmSizes, algorithmId) ==
    LET hits == {j \in 1..Len(algorithmSizes) :
                    algorithmSizes[j].algorithmId = algorithmId} IN
    IF hits = {} THEN [found |-> FALSE, digestSize |-> 0]
    ELSE LET j == CHOOSE x \in hits : \A y \in hits : x <= y IN
         [found |-> TRUE, digestSize |-> algorithmSizes[j].digestSize]

\* the digest loop of stream_2.ReadNextEvent, from entry i at position p
RECURSIVE readDigests(_, _, _, _, _, _, _, _)
readDigests(order, d, p, algorithmSizes, i, count, digests, ids) ==
    LET readDigest(algorithmId, seen, digestSize, rd) ==
            IF rd.err # NoErr
            THEN [err |-> rd.err, pos |-> p + 2 + rd.n, digests |-> digests, ids |-> seen]
            ELSE readDigests(order, d, p + 2 + digestSize, algorithmSizes, i + 1, count,
                             IF algorithmId \in KnownIds
                             THEN MapPut(digests, algorithmId, rd.buf) ELSE digests,
                             seen)
        findSize(algorithmId, seen, lk) ==
            IF ~lk.found
            THEN [err |-> AlgorithmNotFound(algorithmId), pos |-> p + 2,
                  digests |-> digests, ids |-> seen]
            ELSE readDigest(algorithmId, seen, lk.digestSize,
                            ReadFull(d, p + 2, lk.digestSize))
        readAlgorithmId(ra) ==
            IF ra.err # NoErr
            THEN [err |-> ra.err, pos |-> p + ra.n, digests |-> digests, ids |-> ids]
            ELSE findSize(ra.val, Append(ids, ra.val),
                          lookupDigestSize(algorithmSizes, ra.val))
    IN
    IF i >= count THEN [err |-> NoErr, pos |-> p, digests |-> digests, ids |-> ids]
    ELSE readAlgorithmId(binaryRead16(order, d, p))

\* stream_2.ReadNextEvent; readFirstEvent is the field's value at the call (the
\* call leaves it TRUE)
stream_2_ReadNextEvent(order, d, p, algorithmSizes, readFirstEvent) ==
    LET readEvent(pcrIndex, eventType, count, dg, r5) ==
            IF r5.err # NoErr
            THEN Result(<<>>, TRUE, r5.err, dg.pos + 4 + r5.n, dg.ids, count)
            ELSE Result(<<Event(pcrIndex, eventType, dg.digests, r5.buf)>>, FALSE, NoErr,
                        dg.pos + 4 + r5.n, dg.ids, count)
        readEventSize(pcrIndex, eventType, count, dg, r4) ==
            IF r4.err # NoErr
            THEN Result(<<>>, TRUE, r4.err, dg.pos + r4.n, dg.ids, count)
            ELSE readEvent(pcrIndex, eventType, count, dg,
                           ReadFull(d, dg.pos + 4, r4.val))
        readEntries(pcrIndex, eventType, count, dg) ==
            IF dg.err # NoErr THEN Result(<<>>, TRUE, dg.err, dg.pos, dg.ids, count)
            ELSE readEventSize(pcrIndex, eventType, count, dg,
                               binaryRead32(order, d, dg.pos))
        readCount(pcrIndex, eventType, r3) ==
            IF r3.err # NoErr THEN Result(<<>>, TRUE, r3.err, p + 8 + r3.n, <<>>, 0)
            ELSE readEntries(pcrIndex, eventType, r3.val,
                             readDigests(order, d, p + 12, algorithmSizes, 0, r3.val,
                                         NoDigests, <<>>))
        readEventType(pcrIndex, r2) ==
            IF r2.err # NoErr THEN Result(<<>>, TRUE, r2.err, p + 4 + r2.n, <<>>, 0)
            ELSE readCount(pcrIndex, r2.val, binaryRead32(order, d, p + 8))
        readPcrIndex(r1) ==
            IF r1.err # NoErr THEN Result(<<>>, FALSE, r1.err, p + r1.n, <<>>, 0)
            ELSE IF ~pcrIndexValid(r1.val)
            THEN Result(<<>>, TRUE, InvalidPCRIndex(r1.val), p + 4, <<>>, 0)
            ELSE readEventType(r1.val, binaryRead32(order, d, p + 4))
    IN
    IF ~readFirstEvent THEN stream_1_2_ReadNextEvent(order, d, p)
    ELSE readPcrIndex(binaryRead32(order, d, p))

----------------------------------------------------------------------------
(* The crypto-agile header *)

\* "Spec ID Event03\x00"
Signature == <<83, 112, 101, 99, 32, 73, 68, 32, 69, 118, 101, 110, 116, 48, 51, 0>>

algorithmSize(algorithmId, digestSize) ==
    [algorithmId |-> algorithmId, digestSize |-> digestSize]

\* parseTCG2LogHeader returns nil or a (possibly empty) slice
NilSizes == [isNil |-> TRUE, sizes |-> <<>>]
Sizes(s) == [isNil |-> FALSE, sizes |-> s]

\* algSizesStream reading from the wrong offset (16, the end of the signature)
algSizesStreamAtSignatureEnd(eventData) == SubSeq(eventData, 17, Len(eventData))

\* bytes.NewReader(event.Data[24:])
algSizesStream(eventData) == SubSeq(eventData, 25, Len(eventData))

\* the loop of parseTCG2LogHeader over the numAlgorithms pairs, from pair i at
\* offset q of the stream b
RECURSIVE readAlgorithmSizes(_, _, _, _, _, _)
readAlgorithmSizes(order, b, q, i, numAlgorithms, acc) ==
    LET readDigestSize(algorithmId, rs) ==
            IF rs.err # NoErr THEN NilSizes
            ELSE readAlgorithmSizes(order, b, q + 4, i + 1, numAlgorithms,
                                    Append(acc, algorithmSize(algorithmId, rs.val)))
        readAlgorithmId(ra) ==
            IF ra.err # NoErr THEN NilSizes
            ELSE readDigestSize(ra.val, binaryRead16(order, b, q + 2))
    IN
    IF i >= numAlgorithms THEN Sizes(acc)
    ELSE readAlgorithmId(binaryRead16(order, b, q))

parseTCG2LogHeader(order, event) ==
    LET readNumAlgorithms(b, rn) ==
            IF rn.err # NoErr THEN NilSizes
            ELSE readAlgorithmSizes(order, b, 4, 0, rn.val, <<>>)
        readHeader(b) == readNumAlgorithms(b, binaryRead32(order, b, 0))
    IN
    IF event.PCRIndex # 0 THEN NilSizes
    ELSE IF event.EventType # EventTypeNoAction THEN NilSizes
    ELSE IF \E i \in 1..Len(event.Digests[AlgorithmSha1]) :
                event.Digests[AlgorithmSha1][i] # 0 THEN NilSizes
    ELSE IF Len(event.Data) < 29 THEN NilSizes
    ELSE IF SubSeq(event.Data, 1, 16) # Signature THEN NilSizes
    ELSE readHeader(algSizesStream(event.Data))

----------------------------------------------------------------------------
(* newLogFromReader *)

\* Seek that leaves the position where it is
SeekIgnored(offset, whence, cur) == cur

\* io.ReadSeeker.Seek of a bytes.Reader / os.File: the new position
Seek(offset, whence, cur) ==
    IF whence = "io.SeekCurrent" THEN cur + offset ELSE offset

NilLog ==
    [Format |-> "nil", Algorithms |-> <<>>,
     stream |-> [kind |-> "nil", algorithmSizes |-> <<>>, readFirstEvent |-> FALSE]]

\* headerSizeError without the knownSize != algSize.digestSize test
headerSizeUnchecked(algSizes) == NoErr

\* the first header entry of a recognised algorithm whose size is not the
\* catalog's, as the InvalidLogError the loop returns for it (NoErr when none)
headerSizeError(algSizes) ==
    LET bad == {i \in 1..Len(algSizes) :
                   /\ algSizes[i].algorithmId \in KnownIds
                   /\ knownAlgorithms(algSizes[i].algorithmId) # algSizes[i].digestSize}
    IN
    IF bad = {} THEN NoErr
    ELSE LET i == CHOOSE x \in bad : \A y \in bad : x <= y IN
         DigestSizeMismatch(algSizes[i].algorithmId, algSizes[i].digestSize,
                            knownAlgorithms(algSizes[i].algorithmId))

\* the recognised identifiers of the header, in the header's order
headerAlgorithms(algSizes) ==
    LET Known(x) == x.algorithmId \in KnownIds
        kept == SelectSeq(algSizes, Known)
    IN [i \in 1..Len(kept) |-> kept[i].algorithmId]

\* newLogFromReader(r): the Log (NilLog for nil), the error, the position the
\* source is left at, and the locals start and event
newLog(order, d, p) ==
    LET opened(start0, event, p1, format, algorithms, stream, err) ==
            [log |-> IF err # NoErr THEN NilLog
                     ELSE [Format |-> format, Algorithms |-> algorithms,
                           stream |-> stream],
             err |-> err, pos |-> p1, start |-> start0, event |-> event]
        detect(start0, event, p1, algSizes) ==
            IF ~algSizes.isNil
            THEN opened(start0, event, p1, Format2, headerAlgorithms(algSizes.sizes),
                        [kind |-> "stream_2", algorithmSizes |-> algSizes.sizes,
                         readFirstEvent |-> FALSE],
                        headerSizeError(algSizes.sizes))
            ELSE opened(start0, event, p1, Format1_2, <<AlgorithmSha1>>,
                        [kind |-> "stream_1_2", algorithmSizes |-> <<>>,
                         readFirstEvent |-> FALSE],
                        NoErr)
        readFirst(start0, r) ==
            IF r.err # NoErr
            THEN [log |-> NilLog, err |-> IF r.err = EOF THEN ErrUnexpectedEOF ELSE r.err,
                  pos |-> r.pos, start |-> start0, event |-> <<>>]
            ELSE detect(start0, r.event, Seek(start0, "io.SeekStart", r.pos),
                        parseTCG2LogHeader(order, r.event[1]))
    IN readFirst(Seek(0, "io.SeekCurrent", p), stream_1_2_ReadNextEvent(order, d, p))

----------------------------------------------------------------------------
(* Log.NextEvent *)

\* l.stream.ReadNextEvent()
ReadNextEvent(order, d, p, stream) ==
    IF stream.kind = "stream_2"
    THEN stream_2_ReadNextEvent(order, d, p, stream.algorithmSizes, stream.readFirstEvent)
    ELSE stream_1_2_ReadNextEvent(order, d, p)

\* nextEventErr without the conversion of a partial record's io.EOF
nextEventErrKept(partial, err) == err

\* if partial && err == io.EOF { err = io.ErrUnexpectedEOF }
nextEventErr(partial, err) ==
    IF partial /\ err = EOF THEN ErrUnexpectedEOF ELSE err

\* what Log.NextEvent returns and where it leaves the source; read is what
\* l.stream.ReadNextEvent() returned to it
nextEvent(order, d, p, stream) ==
    LET return(r) ==
            [event |-> r.event, err |-> nextEventErr(r.partial, r.err), pos |-> r.pos,
             read |-> r]
    IN return(ReadNextEvent(order, d, p, stream))

----------------------------------------------------------------------------
(* The log images the source is loaded with: one or two records, written   *)
(* in byte order enc, the last one cut at any byte, after MaxStart or      *)
(* fewer bytes that precede the log in the source.                         *)

Fill(n, v) == [i \in 1..n |-> v]

RECURSIVE Flatten(_)
Flatten(ss) == IF ss = <<>> THEN <<>> ELSE Head(ss) \o Flatten(Tail(ss))

\* TCG_PCClientPCREventStruct
legacyRecord(enc, pcrIndex, eventType, digest, payload) ==
    PutUint32(enc, pcrIndex) \o PutUint32(enc, eventType) \o digest
        \o PutUint32(enc, Len(payload)) \o payload

\* TCG_PCR_EVENT2; entries is a sequence of [id, digest]
agileRecord(enc, pcrIndex, eventType, entries, payload) ==
    PutUint32(enc, pcrIndex) \o PutUint32(enc, eventType)
        \o PutUint32(enc, Len(entries))
        \o Flatten([i \in 1..Len(entries) |->
                       PutUint16(enc, entries[i].id) \o entries[i].digest])
        \o PutUint32(enc, Len(payload)) \o payload

\* TCG_EfiSpecIdEvent: signature, platformClass, specVersionMinor/Major, specErrata,
\* uintnSize, numberOfAlgorithms, the pairs, then trail more bytes (vendorInfoSize, ...)
headerPayload(enc, pairs, trail, flaw) ==
    (IF flaw = "signature" THEN [Signature EXCEPT ![15] = 50] ELSE Signature)
        \o <<0, 0, 0, 0, 0, 2, 0, 2>>
        \o PutUint32(enc, Len(pairs))
        \o Flatten([i \in 1..Len(pairs) |->
                       PutUint16(enc, pairs[i].algorithmId)
                           \o PutUint16(enc, pairs[i].digestSize)])
        \o Fill(trail, 0)

HeaderPairs ==
    { <<>>,
      <<algorithmSize(AlgorithmSha1, 20)>>,
      <<algorithmSize(AlgorithmSha256, 32), algorithmSize(AlgorithmSha1, 20)>>,
      <<algorithmSize(AlgorithmSha1, 20), algorithmSize(AlgorithmOther, 3),
        algorithmSize(AlgorithmSha256, 32)>>,
      <<algorithmSize(AlgorithmSha1, 21)>> }

First(kind, pairs, trail, flaw, pcrIndex, len) ==
    [kind |-> kind, pairs |-> pairs, trail |-> trail, flaw |-> flaw,
     pcrIndex |-> pcrIndex, len |-> len]

FirstRecords ==
    {First("header", ps, t, "none", 0, 0) : ps \in HeaderPairs, t \in 0..MaxData}
    \cup {First("header", <<algorithmSize(AlgorithmSha1, 20)>>, 1, f, 0, 0) :
             f \in {"pcrIndex", "eventType", "digest", "signature"}}
    \cup {First("legacy", <<>>, 0, "none", i, n) : i \in {0, 32}, n \in 0..MaxData}

firstBytes(enc, f) ==
    IF f.kind = "header"
    THEN legacyRecord(enc,
                      IF f.flaw = "pcrIndex" THEN 1 ELSE 0,
                      IF f.flaw = "eventType" THEN EventTypeAction ELSE EventTypeNoAction,
                      IF f.flaw = "digest" THEN Fill(19, 0) \o <<1>> ELSE Fill(20, 0),
                      headerPayload(enc, f.pairs, f.trail, f.flaw))
    ELSE legacyRecord(enc, f.pcrIndex, EventTypeSeparator, Fill(20, 1), Fill(f.len, 5))

IsHeader(f) == f.kind = "header" /\ f.flaw = "none"

Second(kind, pcrIndex, ids, len) ==
    [kind |-> kind, pcrIndex |-> pcrIndex, ids |-> ids, len |-> len]

Ids(pairs) == [i \in 1..Len(pairs) |-> pairs[i].algorithmId]

\* the records that may follow the first one: after a header, a crypto-agile
\* record with an entry for every declared bank, for none, for all but the last,
\* for one more than declared, or with the first bank twice
SecondRecords(f) ==
    IF IsHeader(f)
    THEN LET all == Ids(f.pairs) IN
         {Second("agile", 7, all, n) : n \in 0..MaxData}
         \cup {Second("agile", 7, ids, 0) :
                  ids \in { <<>>,
                            IF all = <<>> THEN <<>> ELSE SubSeq(all, 1, Len(all) - 1),
                            Append(all, AlgorithmSha384),
                            IF all = <<>> THEN <<>> ELSE Append(all, all[1]) }}
         \cup {Second("agile", 32, all, 0)}
    ELSE {Second("legacy", 1, <<>>, n) : n \in 0..MaxData}
         \cup {Second("legacy", 32, <<>>, 0)}

\* the digest size an entry is written with: the header's, else the catalog's
writtenSize(pairs, id) ==
    IF lookupDigestSize(pairs, id).found THEN lookupDigestSize(pairs, id).digestSize
    ELSE IF id \in KnownIds THEN knownAlgorithms(id) ELSE 3

secondBytes(enc, f, s) ==
    IF s.kind = "agile"
    THEN agileRecord(enc, s.pcrIndex, EventTypeSeparator,
                     [i \in 1..Len(s.ids) |->
                         [id |-> s.ids[i], digest |-> Fill(writtenSize(f.pairs, s.ids[i]), 2)]],
                     Fill(s.len, 5))
    ELSE legacyRecord(enc, s.pcrIndex, EventTypeSeparator, Fill(20, 1), Fill(s.len, 5))

\* second is <<>> (no second record) or <<s>>
Image(enc, pre, f, second, cut) ==
    [enc |-> enc, pre |-> pre, first |-> f, second |-> second, cut |-> cut]

imageBytes(im) ==
    LET fb == firstBytes(im.enc, im.first) IN
    Fill(im.pre, 9) \o
    (IF im.second = <<>> THEN SubSeq(fb, 1, im.cut)
     ELSE fb \o SubSeq(secondBytes(im.enc, im.first, im.second[1]), 1, im.cut))

\* the first record is in the source whole
FirstWhole(im) ==
    im.second # <<>> \/ im.cut = Len(firstBytes(im.enc, im.first))

\* the images of first record f whose last record is cut short (or absent)
CutImages(e, pre, f) ==
    {Image(e, pre, f, <<>>, cut) : cut \in 0..(Len(firstBytes(e, f)) - 1)}
    \cup UNION {
        {Image(e, pre, f, <<s>>, cut) : cut \in 1..(Len(secondBytes(e, f, s)) - 1)} :
            s \in SecondRecords(f)}

\* the images of first record f whose records are whole
WholeImages(e, pre, f) ==
    {Image(e, pre, f, <<>>, Len(firstBytes(e, f)))}
    \cup {Image(e, pre, f, <<s>>, Len(secondBytes(e, f, s))) : s \in SecondRecords(f)}

\* Whole logs are written little-endian (the wire order) or in the machine's own
\* order, at any start offset; cut logs in the machine's order at offset 0.
Images(h) ==
    UNION {WholeImages(e, pre, f) :
              e \in {"LE", h}, pre \in 0..MaxStart, f \in FirstRecords}
    \cup UNION {CutImages(h, 0, f) : f \in FirstRecords}

----------------------------------------------------------------------------
(* The state machine *)

NoCall == [before |-> 0, partial |-> FALSE, err |-> NoErr, ids |-> <<>>, count |-> 0,
           legacy |-> FALSE]

NoRet == [event |-> <<>>, err |-> NoErr]

NoRef == [event |-> <<>>, err |-> NoErr, pos |-> 0, log |-> NilLog]

NoCheck == [done |-> FALSE]

Init ==
    /\ host \in Orders
    /\ image \in Images(host)
    /\ data = imageBytes(image)
    /\ pos = image.pre
    /\ phase = "new"
    /\ log = NilLog
    /\ openErr = NoErr
    /\ probe = <<>>
    /\ start = 0
    /\ ret = NoRet
    /\ calls = 0
    /\ last = NoCall
    /\ ref = NoRef
    /\ chk = NoCheck

newLogFromReader ==
    /\ phase = "new"
    /\ LET return(o, le) ==
               /\ phase' = IF o.err = NoErr THEN "open" ELSE "failed"
               /\ log' = o.log
               /\ openErr' = o.err
               /\ pos' = o.pos
               /\ start' = o.start
               /\ probe' = o.event
               /\ ref' = [event |-> le.event, err |-> le.err, pos |-> le.pos,
                          log |-> le.log]
       IN return(newLog(host, data, pos), newLog("LE", data, pos))
    /\ UNCHANGED <<data, host, ret, calls, last, image, chk>>

NextEvent ==
    /\ phase = "open"
    /\ calls < MaxCalls
    /\ LET return(o, le, stream) ==
               /\ ret' = [event |-> o.event, err |-> o.err]
               /\ pos' = o.pos
               /\ log' = [log EXCEPT !.stream = stream]
               /\ last' = [before |-> pos, partial |-> o.read.partial,
                           err |-> o.read.err, ids |-> o.read.ids,
                           count |-> o.read.count,
                           legacy |-> \/ log.stream.kind = "stream_1_2"
                                      \/ ~log.stream.readFirstEvent]
               /\ ref' = [event |-> le.event, err |-> le.err, pos |-> le.pos,
                          log |-> [log EXCEPT !.stream = stream]]
       IN return(nextEvent(host, data, pos, log.stream),
                 nextEvent("LE", data, pos, log.stream),
                 IF log.stream.kind = "stream_2"
                 THEN [log.stream EXCEPT !.readFirstEvent = TRUE] ELSE log.stream)
    /\ calls' = calls + 1
    /\ UNCHANGED <<data, host, phase, openErr, probe, start, image, chk>>

Next == newLogFromReader \/ NextEvent

Spec == Init /\ [][Next]_vars

----------------------------------------------------------------------------
(* Properties of the decoder.  Integer fields are taken as the decoder      *)
(* reads them (nativeEndian, the machine's order); C10 is the property      *)
(* about the byte order itself.                                             *)

Called == phase = "open" /\ calls > 0

Returned == Called /\ ret.event # <<>>

\* bytes the last Log.NextEvent call consumed
Consumed == pos - last.before

HeaderIds == {log.stream.algorithmSizes[j].algorithmId :
                 j \in 1..Len(log.stream.algorithmSizes)}

\* bytes of the digest entries with identifiers ids: 2 for the identifier and the
\* declared size for the digest
RECURSIVE EntryBytes(_)
EntryBytes(ids) ==
    IF ids = <<>> THEN 0
    ELSE 2 + lookupDigestSize(log.stream.algorithmSizes, Head(ids)).digestSize
           + EntryBytes(Tail(ids))

\* the bytes of the record the last call returned, in the layout it was read with
RecordBytes ==
    IF last.legacy THEN 4 + 4 + 20 + 4 + Len(ret.event[1].Data)
    ELSE 4 + 4 + 4 + EntryBytes(last.ids) + 4 + Len(ret.event[1].Data)

\* C1: Log.NextEvent returns io.EOF only when the call consumed no byte and the
\* source was at its end; when the source ends after the call consumed at least
\* one byte of a record it returns io.ErrUnexpectedEOF and no Event; an Event is
\* returned only with a nil error and with every byte of its record consumed.
C1_EndOfLogOnlyBetweenRecords ==
    Called =>
        /\ ret.err = EOF => (Consumed = 0 /\ last.before >= Len(data))
        /\ (Consumed > 0 /\ ret.event = <<>> /\ ~IsInvalidLogError(ret.err))
               => (ret.err = ErrUnexpectedEOF /\ pos = Len(data))
        /\ (Consumed > 0 /\ last.err \in {EOF, ErrUnexpectedEOF})
               => (ret.err = ErrUnexpectedEOF /\ ret.event = <<>>)
        /\ ret.event # <<>> => (ret.err = NoErr /\ Consumed = RecordBytes)
        /\ ret.err \in {NoErr, EOF, ErrUnexpectedEOF} \/ IsInvalidLogError(ret.err)

\* a record began, the source ended inside it at a read that returned io.EOF (at
\* a field boundary), and NextEvent turned that into io.ErrUnexpectedEOF
C1_Witness ==
    /\ Called /\ Consumed > 0
    /\ last.partial /\ last.err = EOF
    /\ ret.err = ErrUnexpectedEOF /\ ret.event = <<>>

\* C2: every digest of every returned Event (and of the record read at open) has
\* the catalog's length for its algorithm key, and a crypto-agile header that
\* declares another size for a recognised algorithm makes newLogFromReader fail
\* with an InvalidLogError and return no Log.
DigestSizesOf(e) ==
    \A alg \in DOMAIN e.Digests :
        alg \in KnownIds /\ Len(e.Digests[alg]) = knownAlgorithms(alg)

DeclaresWrongSize(algSizes) ==
    \E i \in 1..Len(algSizes) :
        /\ algSizes[i].algorithmId \in KnownIds
        /\ algSizes[i].digestSize # knownAlgorithms(algSizes[i].algorithmId)

C2_DigestLengths ==
    /\ Returned => DigestSizesOf(ret.event[1])
    /\ probe # <<>> =>
        /\ DigestSizesOf(probe[1])
        /\ LET h == parseTCG2LogHeader(host, probe[1]) IN
           (~h.isNil /\ DeclaresWrongSize(h.sizes))
               => (phase = "failed" /\ log = NilLog /\ IsInvalidLogError(openErr))
        /\ phase = "open" => ~DeclaresWrongSize(log.stream.algorithmSizes)

\* a crypto-agile record was returned with digests of two banks, read with the
\* sizes of a header that also declares an unrecognised algorithm
C2_Witness ==
    /\ Returned /\ ~last.legacy
    /\ DOMAIN ret.event[1].Digests = {AlgorithmSha1, AlgorithmSha256}
    /\ Len(log.stream.algorithmSizes) = 3

\* the PCR index field at position p of the source, as the decoder reads it
\* (-1 when fewer than 4 bytes are left)
PcrFieldAt(p) ==
    IF Len(data) - p >= 4 THEN Uint32(host, SubSeq(data, p + 1, p + 4)) ELSE -1

\* C3: no returned Event, and no record accepted at open, has a PCR index above
\* 31; in both readers a record whose PCR index field is 32 or more fails with
\* the InvalidLogError for the PCR index once exactly its 4 bytes are consumed.
C3_PcrIndexAtMost31 ==
    /\ Returned => ret.event[1].PCRIndex <= 31
    /\ probe # <<>> => probe[1].PCRIndex <= 31
    /\ (Called /\ PcrFieldAt(last.before) > 31)
           => /\ ret.err = InvalidPCRIndex(PcrFieldAt(last.before))
              /\ ret.event = <<>>
              /\ Consumed = 4
    /\ (phase # "new" /\ PcrFieldAt(start) > 31)
           => /\ phase = "failed" /\ log = NilLog
              /\ openErr = InvalidPCRIndex(PcrFieldAt(start))
              /\ calls = 0 /\ pos = start + 4

\* the crypto-agile reader met a record with PCR index 32
C3_Witness ==
    /\ Called /\ ~last.legacy
    /\ PcrFieldAt(last.before) = 32
    /\ ret.err = InvalidPCRIndex(32) /\ Consumed = 4

\* C4: a crypto-agile record with a digest entry whose algorithm identifier the
\* header does not declare fails with the InvalidLogError naming that identifier,
\* returns no Event, and leaves the source right after the identifier.
C4_UndeclaredAlgorithmFails ==
    (Called /\ ~last.legacy) =>
        /\ (\E i \in 1..Len(last.ids) : last.ids[i] \notin HeaderIds)
               => /\ last.ids[Len(last.ids)] \notin HeaderIds
                  /\ \A i \in 1..(Len(last.ids) - 1) : last.ids[i] \in HeaderIds
                  /\ ret.err = AlgorithmNotFound(last.ids[Len(last.ids)])
                  /\ ret.event = <<>>
                  /\ Consumed = 4 + 4 + 4
                                  + EntryBytes(SubSeq(last.ids, 1, Len(last.ids) - 1)) + 2
                  /\ Uint16(host, SubSeq(data, pos - 1, pos)) = ret.err.a
        /\ ret.err.kind = AlgorithmNotFound(0).kind => ret.err.a \notin HeaderIds
        /\ ret.event # <<>> => \A i \in 1..Len(last.ids) : last.ids[i] \in HeaderIds

\* the entries of the declared banks were read, then one of SHA-384, which the
\* header does not declare
C4_Witness ==
    /\ Called /\ ~last.legacy
    /\ Len(last.ids) = 3
    /\ ret.err = AlgorithmNotFound(AlgorithmSha384)
    /\ HeaderIds = {AlgorithmSha1, AlgorithmSha256}

Range(seq) == {seq[i] : i \in 1..Len(seq)}

\* C5: every Event of a crypto-agile log returned after the header record carries
\* exactly one digest entry for every bank of Log.Algorithms.
C5_EveryBankOnce ==
    (Returned /\ ~last.legacy) =>
        /\ DOMAIN ret.event[1].Digests = Range(log.Algorithms)
        /\ \A alg \in Range(log.Algorithms) :
               Cardinality({i \in 1..Len(last.ids) : last.ids[i] = alg}) = 1

\* C6: after a successful open the source is back at the offset it had when open
\* was called; a first record that is no crypto-agile header gives Format1_2
\* with Algorithms = [SHA-1], one that is gives Format2; the first NextEvent
\* returns that first record in the legacy layout, and a Format2 log reads
\* every later record in the crypto-agile layout.
C6_OpenRewinds ==
    phase = "open" =>
        /\ start = image.pre
        /\ calls = 0 => pos = start
        /\ probe # <<>>
        /\ IF parseTCG2LogHeader(host, probe[1]).isNil
           THEN /\ log.Format = Format1_2
                /\ log.Algorithms = <<AlgorithmSha1>>
                /\ log.stream.kind = "stream_1_2"
           ELSE /\ log.Format = Format2
                /\ log.stream.kind = "stream_2"
                /\ log.stream.algorithmSizes = parseTCG2LogHeader(host, probe[1]).sizes
        /\ calls = 1 => /\ last.before = start /\ last.legacy
                        /\ ret.event = probe /\ ret.err = NoErr
                        /\ Consumed = 4 + 4 + 20 + 4 + Len(probe[1].Data)
        /\ calls > 1 => (last.legacy <=> log.Format = Format1_2)
        /\ (calls > 1 /\ ret.event # <<>>) => Consumed = RecordBytes

\* a log that starts at offset 1 of its source: the header came back from the
\* first NextEvent and a two-bank crypto-agile record from the second
C6_Witness ==
    /\ phase = "open" /\ calls = 2 /\ start = 1
    /\ log.Format = Format2
    /\ ret.event # <<>> /\ Len(last.ids) = 2

\* the header record was written whole, in the byte order the decoder reads
WroteHeader == IsHeader(image.first) /\ FirstWhole(image) /\ image.enc = host

HeaderPayloadLen == 16 + 8 + 4 + 4 * Len(image.first.pairs) + image.first.trail

Recovered ==
    /\ probe # <<>>
    /\ ~parseTCG2LogHeader(host, probe[1]).isNil
    /\ parseTCG2LogHeader(host, probe[1]).sizes = image.first.pairs
    /\ phase = "open" =>
        /\ log.Format = Format2
        /\ log.stream.algorithmSizes = image.first.pairs
        /\ log.Algorithms = headerAlgorithms(image.first.pairs)
    /\ phase = "failed" => DeclaresWrongSize(image.first.pairs)

\* C7 as stated: for every N >= 0 a header record with the count N at payload
\* offset 24 followed by the N pairs is detected as crypto-agile and its pairs are
\* recovered in order, Log.Algorithms being the recognised ones in that order.
C7_AsStated == (phase # "new" /\ WroteHeader) => Recovered

\* C7 amended: the same for a header whose payload is at least 29 bytes long.
C7_HeaderRoundTrip ==
    (phase # "new" /\ WroteHeader /\ HeaderPayloadLen >= 29) => Recovered

\* a header of three pairs, one of them unrecognised, was recovered
C7_Witness ==
    /\ phase = "open" /\ WroteHeader
    /\ Len(image.first.pairs) = 3
    /\ log.Algorithms = <<AlgorithmSha1, AlgorithmSha256>>
    /\ log.stream.algorithmSizes = image.first.pairs

\* C10: every integer field is read as little-endian, so what newLogFromReader
\* and Log.NextEvent return and where they leave the source are what
\* binary.LittleEndian gives, whatever the machine.
C10_FixedLittleEndian ==
    /\ (phase # "new" /\ calls = 0)
           => /\ ref.log = log /\ ref.err = openErr
              /\ ref.event = probe /\ ref.pos = pos
    /\ Called => /\ ref.event = ret.event /\ ref.err = ret.err /\ ref.pos = pos

----------------------------------------------------------------------------
(* The event validator: checkEvent(e, f).  Its events carry decoded event   *)
(* data: for a separator record, the SeparatorEventData with its Type and   *)
(* the payload bytes.                                                       *)

SeparatorEventTypeNormal == "SeparatorEventTypeNormal"
SeparatorEventTypeError == "SeparatorEventTypeError"

\* sha1.Sum, sha256.Sum256, sha512.Sum384, sha512.Sum512, taken as free of
\* collisions: the digest of d under alg is a value that fixes alg and d and
\* is the digest of nothing else (its first element is no byte)
hash(d, alg) == <<256 + alg>> \o d

isZeroDigest(d) == \A i \in 1..Len(d) : d[i] = 0

CheckErr(kind, eventType, pcrIndex, alg, digest) ==
    [kind |-> kind, EventType |-> eventType, PCRIndex |-> pcrIndex, Alg |-> alg,
     Digest |-> digest]

NoCheckErr == CheckErr("nil", 0, 0, 0, <<>>)

UnexpectedEventTypeError(eventType, pcrIndex) ==
    CheckErr("UnexpectedEventTypeError", eventType, pcrIndex, 0, <<>>)

UnexpectedDigestValueError(eventType, alg, digest) ==
    CheckErr("UnexpectedDigestValueError", eventType, 0, alg, digest)

InvalidEventDataError(eventType) ==
    CheckErr("InvalidEventDataError", eventType, 0, 0, <<>>)

\* unexpectedEventType with the EV_EVENT_TAG test written <= 4 for < 4
unexpectedEventTypeThrough4(e, f) ==
    CASE e.EventType = EventTypePostCode -> e.PCRIndex # 0
      [] e.EventType = EventTypeNoAction -> e.PCRIndex # 0 /\ e.PCRIndex # 6
      [] e.EventType = EventTypeSeparator -> e.PCRIndex > 7
      [] e.EventType = EventTypeEventTag ->
            e.PCRIndex > 4 \/ (e.PCRIndex <= 4 /\ f = Format2)
      [] OTHER -> FALSE

\* the tests of checkEvent that return an UnexpectedEventTypeError
unexpectedEventType(e, f) ==
    CASE e.EventType = EventTypePostCode -> e.PCRIndex # 0
      [] e.EventType = EventTypeNoAction -> e.PCRIndex # 0 /\ e.PCRIndex # 6
      [] e.EventType = EventTypeSeparator -> e.PCRIndex > 7
      [] e.EventType = EventTypeEventTag ->
            e.PCRIndex > 4 \/ (e.PCRIndex < 4 /\ f = Format2)
      [] OTHER -> FALSE

\* separatorBytes that hashes the payload bytes whatever the separator's type
separatorBytesLiteral(order, se) == se.bytes

\* the bytes d whose hash a separator's digests are compared with: e.Data.Bytes(),
\* or for an error separator 4 bytes holding uint32(1) in the machine's order
separatorBytes(order, se) ==
    IF se.Type = SeparatorEventTypeError THEN PutUint32(order, 1) ELSE se.bytes

\* checkEvent(e, f): the errors it may return (NoCheckErr is nil).  The digests
\* are ranged over in the map's order, which Go leaves open: any bank that
\* fails its test may be the one returned.
checkEvent(order, e, f) ==
    LET mismatches(d) == {alg \in DOMAIN e.Digests : e.Digests[alg] # hash(d, alg)}
        nonZero == {alg \in DOMAIN e.Digests : ~isZeroDigest(e.Digests[alg])}
        digestErrors(bad) ==
            IF bad = {} THEN {NoCheckErr}
            ELSE {UnexpectedDigestValueError(e.EventType, alg, e.Digests[alg]) :
                     alg \in bad}
    IN
    IF unexpectedEventType(e, f)
    THEN {UnexpectedEventTypeError(e.EventType, e.PCRIndex)}
    ELSE IF e.EventType = EventTypeNoAction THEN digestErrors(nonZero)
    ELSE IF e.EventType = EventTypeSeparator
    THEN IF ~e.Data.isSeparator THEN {InvalidEventDataError(e.EventType)}
         ELSE digestErrors(mismatches(separatorBytes(order, e.Data)))
    ELSE {NoCheckErr}

\* The events checkEvent is applied to
EventData(isSeparator, type, bytes) ==
    [isSeparator |-> isSeparator, Type |-> type, bytes |-> bytes]

CheckData ==
    { EventData(FALSE, "", <<5>>),
      EventData(TRUE, SeparatorEventTypeNormal, <<0, 0, 0, 0>>),
      EventData(TRUE, SeparatorEventTypeError, <<1, 0, 0, 0>>),
      EventData(TRUE, SeparatorEventTypeError, <<7, 7>>) }

\* a recorded digest: all zero, the hash of the payload, or the hash of the
\* error value 1 laid out little-endian
CheckDigests(alg, ed) ==
    {Zeros(knownAlgorithms(alg)), hash(ed.bytes, alg), hash(<<1, 0, 0, 0>>, alg)}

CheckDigestMaps(pcrIndex, ed) ==
    {MapPut(NoDigests, AlgorithmSha1, d) : d \in CheckDigests(AlgorithmSha1, ed)}
    \cup (IF pcrIndex \in {0, 7}
          THEN {MapPut(MapPut(NoDigests, AlgorithmSha1, d1), AlgorithmSha256, d2) :
                   d1 \in CheckDigests(AlgorithmSha1, ed),
                   d2 \in CheckDigests(AlgorithmSha256, ed)}
          ELSE {})

CheckEventTypes ==
    {EventTypePostCode, EventTypeNoAction, EventTypeSeparator, EventTypeAction,
     EventTypeEventTag}

CheckEvents ==
    UNION { {Event(i, t, dm, ed) : dm \in CheckDigestMaps(i, ed)} :
               i \in 0..maxPCRIndex, t \in CheckEventTypes, ed \in CheckData }

InitCheck ==
    /\ host \in Orders
    /\ chk \in [done : {FALSE}, e : CheckEvents, f : {Format1_2, Format2},
                err : {NoCheckErr}]
    /\ data = <<>>
    /\ pos = 0
    /\ phase = "check"
    /\ log = NilLog
    /\ openErr = NoErr
    /\ probe = <<>>
    /\ start = 0
    /\ ret = NoRet
    /\ calls = 0
    /\ last = NoCall
    /\ ref = NoRef
    /\ image = [pre |-> 0]

CheckEvent ==
    /\ phase = "check"
    /\ ~chk.done
    /\ \E err \in checkEvent(host, chk.e, chk.f) :
           chk' = [chk EXCEPT !.done = TRUE, !.err = err]
    /\ UNCHANGED <<data, pos, host, phase, log, openErr, probe, start, ret, calls, last,
                   ref, image>>

NextCheck == CheckEvent

SpecCheck == InitCheck /\ [][NextCheck]_vars

----------------------------------------------------------------------------
(* Properties of the validator *)

\* the PCR-targeting rules of the event types
ViolatesPcrRule(e, f) ==
    \/ e.EventType = EventTypePostCode /\ e.PCRIndex # 0
    \/ e.EventType = EventTypeNoAction /\ e.PCRIndex \notin {0, 6}
    \/ e.EventType = EventTypeSeparator /\ e.PCRIndex > 7
    \/ e.EventType = EventTypeEventTag /\ e.PCRIndex > 4
    \/ e.EventType = EventTypeEventTag /\ e.PCRIndex \in 0..3 /\ f = Format2

\* C8: checkEvent returns an UnexpectedEventTypeError (naming the event's type
\* and PCR index) exactly when the event violates its type's PCR-targeting rule,
\* and returns nil for every event of another type.
C8_PcrTargetingRules ==
    chk.done =>
        /\ chk.err.kind = "UnexpectedEventTypeError" <=> ViolatesPcrRule(chk.e, chk.f)
        /\ ViolatesPcrRule(chk.e, chk.f)
               => chk.err = UnexpectedEventTypeError(chk.e.EventType, chk.e.PCRIndex)
        /\ chk.e.EventType \notin {EventTypePostCode, EventTypeNoAction,
                                   EventTypeSeparator, EventTypeEventTag}
               => chk.err = NoCheckErr

\* an EV_EVENT_TAG event measured to PCR 2 of a crypto-agile log was rejected
C8_Witness ==
    /\ chk.done
    /\ chk.e.EventType = EventTypeEventTag /\ chk.e.PCRIndex = 2 /\ chk.f = Format2
    /\ chk.err = UnexpectedEventTypeError(EventTypeEventTag, 2)

SeparatorChecked ==
    chk.done /\ chk.e.EventType = EventTypeSeparator /\ chk.e.PCRIndex <= 7

\* the 4-byte error value, as checkEvent builds it
ErrorValue == PutUint32(host, 1)

MatchesEither(alg) ==
    \/ chk.e.Digests[alg] = hash(chk.e.Data.bytes, alg)
    \/ chk.e.Digests[alg] = hash(ErrorValue, alg)

\* C9 as stated, on a little-endian machine and for a payload that decoded as a
\* normal separator record: a separator with a bank whose digest is neither the
\* hash of the payload nor the hash of the error value gets exactly one
\* unexpected-digest finding naming such a bank; a separator whose digest in
\* every bank is one of the two hashes gets no finding.
C9_AsStated ==
    (/\ SeparatorChecked /\ chk.e.Data.isSeparator /\ host = "LE"
     /\ chk.e.Data.Type = SeparatorEventTypeNormal) =>
        /\ (\E alg \in DOMAIN chk.e.Digests : ~MatchesEither(alg))
               => /\ chk.err.kind = "UnexpectedDigestValueError"
                  /\ chk.err.Alg \in DOMAIN chk.e.Digests
        /\ (\A alg \in DOMAIN chk.e.Digests : MatchesEither(alg))
               => chk.err = NoCheckErr

\* the hash a separator's digest must equal: of the error value for an error
\* separator, of the payload bytes otherwise
Expected(alg) ==
    hash(IF chk.e.Data.Type = SeparatorEventTypeError THEN ErrorValue
         ELSE chk.e.Data.bytes, alg)

\* C9 amended: for a separator whose payload decoded as a separator record, the
\* hash is the one of the separator's type; a bank whose digest differs from it
\* gives exactly one UnexpectedDigestValueError, naming the event's type, one
\* such bank and its digest, and no bank differing gives nil.
C9_SeparatorDigests ==
    (SeparatorChecked /\ chk.e.Data.isSeparator) =>
        /\ (\E alg \in DOMAIN chk.e.Digests : chk.e.Digests[alg] # Expected(alg))
               => /\ chk.err.kind = "UnexpectedDigestValueError"
                  /\ chk.err.Alg \in DOMAIN chk.e.Digests
                  /\ chk.e.Digests[chk.err.Alg] # Expected(chk.err.Alg)
                  /\ chk.err = UnexpectedDigestValueError(EventTypeSeparator, chk.err.Alg,
                                                          chk.e.Digests[chk.err.Alg])
        /\ (\A alg \in DOMAIN chk.e.Digests : chk.e.Digests[alg] = Expected(alg))
               => chk.err = NoCheckErr

\* a normal separator with two banks: SHA-1 holds the hash of the payload,
\* SHA-256 the hash of the error value, and the finding names SHA-256
C9_Witness ==
    /\ SeparatorChecked /\ chk.e.Data.isSeparator
    /\ chk.e.Data.Type = SeparatorEventTypeNormal
    /\ DOMAIN chk.e.Digests = {AlgorithmSha1, AlgorithmSha256}
    /\ chk.e.Digests[AlgorithmSha1] = hash(chk.e.Data.bytes, AlgorithmSha1)
    /\ chk.e.Digests[AlgorithmSha256] = hash(ErrorValue, AlgorithmSha256)
    /\ chk.err = UnexpectedDigestValueError(EventTypeSeparator, AlgorithmSha256,
                                            hash(ErrorValue, AlgorithmSha256))

====
